---- MODULE Spec2Model ----
(***************************************************************************)
(* A model of src/models/models.py: the Task tree of a Plan, its mirrored  *)
(* parent/child and dependency/next relations, cascade delete, doability   *)
(* and the JSON save/load of the tree.                                     *)
(*                                                                         *)
(* Task objects live in an arena `tasks` indexed by object identity.  A    *)
(* slot whose object no live object refers to any more is free (Python's   *)
(* garbage collection).  Every method is one operator from an arena to a   *)
(* result [t, ok]: the arena when the call returns or raises, and whether  *)
(* it returned normally.                                                   *)
(***************************************************************************)
EXTENDS Integers, Sequences, FiniteSets, TLC

\* Most Task objects (besides the root) a caller builds, and most dependency
\* edges a caller asks for directly.
MaxTasks == 2
MaxEdges == 1
\* Most completed / shown_completed / description fields a caller has set.
MaxMarks == 1

\* The names callers give to tasks, and the name of the plan (its root).
Names == {"a", "b"}
PlanName == "p"
Descriptions == {"", "d"}

Root == 0
None == -1
\* One slot more than MaxTasks: the object a failing constructor builds.
Ids == 0..(MaxTasks + 1)

\* tasks: the arena of Task objects.  ok: whether the last call returned
\* normally (FALSE: it raised).
VARIABLES tasks, ok
vars == <<tasks, ok>>

------------------------------------------------------------------------------
(* class Task: the fields the modelled methods read or write.  id, position *)
(* and is_open keep their defaults in every modelled call.                  *)
Task(name, parent, dependencies, nexts) ==
  [live |-> TRUE, name |-> name, level |-> 0, parent |-> parent,
   dependencies |-> dependencies, nexts |-> nexts, children |-> <<>>,
   description |-> "", completed |-> FALSE, shown_completed |-> FALSE]

FreeTask ==
  [live |-> FALSE, name |-> "", level |-> 0, parent |-> None,
   dependencies |-> <<>>, nexts |-> <<>>, children |-> <<>>,
   description |-> "", completed |-> FALSE, shown_completed |-> FALSE]

Ok(t) == [t |-> t, ok |-> TRUE]
Raise(t) == [t |-> t, ok |-> FALSE]

Range(s) == {s[i] : i \in 1..Len(s)}
RemoveAt(s, i) == SubSeq(s, 1, i - 1) \o SubSeq(s, i + 1, Len(s))

\* children is a dict in insertion order: a sequence of [k, v] entries.
Keys(ch) == {ch[i].k : i \in 1..Len(ch)}
Values(ch) == {ch[i].v : i \in 1..Len(ch)}
KeyIdx(ch, k) == IF k \in Keys(ch) THEN CHOOSE i \in 1..Len(ch) : ch[i].k = k ELSE 0
Lookup(ch, k) == ch[KeyIdx(ch, k)].v

------------------------------------------------------------------------------
(* BaseModel.__eq__ as Task inherits it: the same object, or equal fields   *)
(* compared in declaration order, lists and dicts element by element with   *)
(* the identity shortcut.  "E" is the RecursionError of a comparison that   *)
(* comes back to the pair it is comparing.                                  *)
\* r and then rest: the first outcome that is not "T".
AndThen(r, rest) == IF r # "T" THEN r ELSE rest

RECURSIVE TaskEq(_, _, _, _), FieldsEq(_, _, _, _), ListEq(_, _, _, _, _),
          DictEq(_, _, _, _, _)
TaskEq(t, a, b, stack) ==
  IF a = b THEN "T"
  ELSE IF a = None \/ b = None THEN "F"
  ELSE IF <<a, b>> \in stack THEN "E"
  ELSE IF t[a].name # t[b].name \/ t[a].level # t[b].level THEN "F"
  ELSE FieldsEq(t, t[a], t[b], stack \cup {<<a, b>>})

FieldsEq(t, A, B, stack) ==
  AndThen(TaskEq(t, A.parent, B.parent, stack),
  AndThen(ListEq(t, A.dependencies, B.dependencies, 1, stack),
  AndThen(ListEq(t, A.nexts, B.nexts, 1, stack),
  AndThen(DictEq(t, A.children, B.children, 1, stack),
          IF A.description = B.description /\ A.completed = B.completed
             /\ A.shown_completed = B.shown_completed
          THEN "T" ELSE "F"))))

ListEq(t, la, lb, i, stack) ==
  IF Len(la) # Len(lb) THEN "F"
  ELSE IF i > Len(la) THEN "T"
  ELSE AndThen(TaskEq(t, la[i], lb[i], stack), ListEq(t, la, lb, i + 1, stack))

DictEq(t, da, db, i, stack) ==
  IF Len(da) # Len(db) THEN "F"
  ELSE IF i > Len(da) THEN "T"
  ELSE IF da[i].k \notin Keys(db) THEN "F"
  ELSE AndThen(TaskEq(t, da[i].v, Lookup(db, da[i].k), stack),
               DictEq(t, da, db, i + 1, stack))

(* lst.index(x): the first element that is x or equals x; 0 when there is  *)
(* none, -1 when a comparison raises first.                                *)
Found(r, i, rest) == IF r = "T" THEN i ELSE IF r = "E" THEN -1 ELSE rest

RECURSIVE FindIdx(_, _, _, _)
FindIdx(t, lst, x, i) ==
  IF i > Len(lst) THEN 0
  ELSE Found(TaskEq(t, lst[i], x, {}), i, FindIdx(t, lst, x, i + 1))

\* `x in lst`
Has(i) == IF i = -1 THEN "E" ELSE IF i > 0 THEN "T" ELSE "F"
Member(t, lst, x) == Has(FindIdx(t, lst, x, 1))

\* `if <test>: return`, the test being r: the call raises when the test
\* raises, returns when it is true, and goes on with rest when it is false.
ReturnIf(r, t, rest) ==
  IF r = "E" THEN Raise(t) ELSE IF r = "T" THEN Ok(t) ELSE rest

------------------------------------------------------------------------------
(* Task.add_dependency and Task.add_next, which call each other.           *)
RECURSIVE add_dependency(_, _, _), add_next(_, _, _)
\* add_dependency without its level test.
add_dependency_any_level(t, self, new) ==
  ReturnIf(Member(t, t[self].dependencies, new), t,
           add_next([t EXCEPT ![self].dependencies = Append(@, new)], new, self))

add_dependency(t, self, new) ==
  ReturnIf(Member(t, t[self].dependencies, new), t,
           IF t[new].level # t[self].level THEN Raise(t)
           ELSE add_next([t EXCEPT ![self].dependencies = Append(@, new)],
                         new, self))

\* add_next without its `new not in self.nexts` test.
add_next_again(t, self, new) ==
  IF t[new].level # t[self].level THEN Raise(t)
  ELSE add_dependency([t EXCEPT ![self].nexts = Append(@, new)], new, self)

add_next(t, self, new) ==
  ReturnIf(Member(t, t[self].nexts, new), t,
           IF t[new].level # t[self].level THEN Raise(t)
           ELSE add_dependency([t EXCEPT ![self].nexts = Append(@, new)],
                               new, self))

(* Task.add_child and Task.set_parent, which call each other.              *)
RECURSIVE add_child(_, _, _), set_parent(_, _, _)
add_child(t, self, new) ==
  IF t[new].name \in Keys(t[self].children) THEN Ok(t)
  ELSE IF t[new].level # t[self].level + 1 THEN Raise(t)
  ELSE set_parent([t EXCEPT ![self].children =
                      Append(@, [k |-> t[new].name, v |-> new])], new, self)

\* `if self.parent != new` is the negation of self.parent == new.
set_parent(t, self, new) ==
  ReturnIf(TaskEq(t, t[self].parent, new, {}), t,
           IF t[new].level # t[self].level - 1 THEN Raise(t)
           ELSE add_child([t EXCEPT ![self].parent = new], new, self))

(* The nested calls one call makes, itself included: the same tests as     *)
(* the methods above, counting 1 for each call entered.                    *)
RECURSIVE add_dependency_calls(_, _, _), add_next_calls(_, _, _)
\* add_dependency calling new.add_next(self) before it appends new.
add_dependency_calls_late(t, self, new) ==
  IF Member(t, t[self].dependencies, new) # "F" \/ t[new].level # t[self].level
  THEN 1
  ELSE 1 + add_next_calls(t, new, self)

add_dependency_calls(t, self, new) ==
  IF Member(t, t[self].dependencies, new) # "F" \/ t[new].level # t[self].level
  THEN 1
  ELSE 1 + add_next_calls([t EXCEPT ![self].dependencies = Append(@, new)],
                          new, self)

add_next_calls(t, self, new) ==
  IF Member(t, t[self].nexts, new) # "F" \/ t[new].level # t[self].level
  THEN 1
  ELSE 1 + add_dependency_calls([t EXCEPT ![self].nexts = Append(@, new)],
                                new, self)

RECURSIVE add_child_calls(_, _, _), set_parent_calls(_, _, _)
add_child_calls(t, self, new) ==
  IF t[new].name \in Keys(t[self].children) \/ t[new].level # t[self].level + 1
  THEN 1
  ELSE 1 + set_parent_calls([t EXCEPT ![self].children =
                                Append(@, [k |-> t[new].name, v |-> new])],
                            new, self)

set_parent_calls(t, self, new) ==
  IF TaskEq(t, t[self].parent, new, {}) # "F" \/ t[new].level # t[self].level - 1
  THEN 1
  ELSE 1 + add_child_calls([t EXCEPT ![self].parent = new], new, self)

------------------------------------------------------------------------------
(* Task.delete.                                                            *)
\* lst.remove(x), j being lst.index(x): ValueError when x is not in lst.
NextRemoved(t, dep, j) ==
  IF j <= 0 THEN Raise(t) ELSE Ok([t EXCEPT ![dep].nexts = RemoveAt(@, j)])
DependencyRemoved(t, nxt, j) ==
  IF j <= 0 THEN Raise(t) ELSE Ok([t EXCEPT ![nxt].dependencies = RemoveAt(@, j)])

RECURSIVE delete(_, _), DeleteDeps(_, _, _), DeleteNexts(_, _, _),
          DeleteChildren(_, _, _, _)
\* for dep in self.dependencies: dep.nexts.remove(self)
DeleteDeps(r, self, i) ==
  IF ~r.ok \/ i > Len(r.t[self].dependencies) THEN r
  ELSE DeleteDeps(NextRemoved(r.t, r.t[self].dependencies[i],
                    FindIdx(r.t, r.t[r.t[self].dependencies[i]].nexts, self, 1)),
                  self, i + 1)

\* for next in self.nexts: next.dependencies.remove(self)
DeleteNexts(r, self, i) ==
  IF ~r.ok \/ i > Len(r.t[self].nexts) THEN r
  ELSE DeleteNexts(DependencyRemoved(r.t, r.t[self].nexts[i],
                     FindIdx(r.t, r.t[r.t[self].nexts[i]].dependencies, self, 1)),
                   self, i + 1)

\* for child in self.children.values(): child.delete()
\* The dict iterator raises RuntimeError at its next step once the dict's
\* size is no longer n0, its size when the loop began.
DeleteChildren(r, self, n0, i) ==
  IF ~r.ok THEN r
  ELSE IF Len(r.t[self].children) # n0 THEN Raise(r.t)
  ELSE IF i > n0 THEN r
  ELSE DeleteChildren(delete(r.t, r.t[self].children[i].v), self, n0, i + 1)

DeleteAllChildren(r, self) ==
  IF ~r.ok THEN r ELSE DeleteChildren(r, self, Len(r.t[self].children), 1)

\* if self.parent is not None: del self.parent.children[self.name]
DeleteFromParent(r, self) ==
  LET p == r.t[self].parent
      j == KeyIdx(r.t[p].children, r.t[self].name)
  IN IF ~r.ok \/ p = None THEN r
     ELSE IF j = 0 THEN Raise(r.t)
     ELSE Ok([r.t EXCEPT ![p].children = RemoveAt(@, j)])

delete(t, self) ==
  DeleteFromParent(
    DeleteAllChildren(DeleteNexts(DeleteDeps(Ok(t), self, 1), self, 1), self),
    self)

------------------------------------------------------------------------------
(* Task.model_post_init.  No constructor call of the repository passes     *)
(* children, so the loop over self.children has nothing to visit.          *)
RECURSIVE PostInitDeps(_, _, _), PostInitNexts(_, _, _)
\* for dep in self.dependencies: dep.add_next(self)
PostInitDeps(r, self, i) ==
  IF ~r.ok \/ i > Len(r.t[self].dependencies) THEN r
  ELSE PostInitDeps(add_next(r.t, r.t[self].dependencies[i], self), self, i + 1)

\* for next in self.nexts: next.add_dependency(self)
PostInitNexts(r, self, i) ==
  IF ~r.ok \/ i > Len(r.t[self].nexts) THEN r
  ELSE PostInitNexts(add_dependency(r.t, r.t[self].nexts[i], self), self, i + 1)

\* self.level = self.parent.level + 1
PostInitLevel(t, self) ==
  IF t[self].parent = None THEN t
  ELSE [t EXCEPT ![self].level = t[t[self].parent].level + 1]

\* The duplicate test, self.delete() and the raise, or parent.add_child(self).
PostInitParent(t, self) ==
  IF t[self].parent = None THEN Ok(t)
  ELSE IF t[self].name \in Keys(t[t[self].parent].children)
       THEN Raise(delete(t, self).t)
       ELSE add_child(t, t[self].parent, self)

model_post_init(t, self) ==
  PostInitNexts(
    PostInitDeps(PostInitParent(PostInitLevel(t, self), self), self, 1),
    self, 1)

\* The identity of the next object built: a free slot.
NewId(t) == CHOOSE i \in Ids : ~t[i].live /\ \A j \in Ids : ~t[j].live => i <= j

\* Task(name=, plan=, parent=, dependencies=, nexts=): build, then post-init.
NewTask(t, name, parent, dependencies, nexts) ==
  model_post_init([t EXCEPT ![NewId(t)] = Task(name, parent, dependencies, nexts)],
                  NewId(t))

create_dependency(t, self, name) == NewTask(t, name, t[self].parent, <<>>, <<self>>)
create_next(t, self, name) == NewTask(t, name, t[self].parent, <<self>>, <<>>)
create_child(t, self, name) == NewTask(t, name, self, <<>>, <<>>)

------------------------------------------------------------------------------
(* Task.is_doable.                                                         *)
\* A dependency that counts only when it is shown as completed.
SatisfiedShownOnly(t, dep) == t[dep].shown_completed

Satisfied(t, dep) == t[dep].completed \/ t[dep].shown_completed

RECURSIVE is_doable(_, _)
is_doable(t, self) ==
  IF t[self].parent = None \/ is_doable(t, t[self].parent)
  THEN \A i \in 1..Len(t[self].dependencies) : Satisfied(t, t[self].dependencies[i])
  ELSE TRUE

\* task.completed = v, task.shown_completed = v, task.description = d
set_completed(t, self, v) == [t EXCEPT ![self].completed = v]
set_shown_completed(t, self, v) == [t EXCEPT ![self].shown_completed = v]
set_description(t, self, d) == [t EXCEPT ![self].description = d]

------------------------------------------------------------------------------
(* Task.get_json: the nested document of a task; children keep the dict's  *)
(* order as a sequence of [k, v] entries.                                  *)
NamesOf(t, lst) == [i \in 1..Len(lst) |-> t[lst[i]].name]

RECURSIVE get_json(_, _)
get_json(t, self) ==
  [name |-> t[self].name,
   dependencies |-> NamesOf(t, t[self].dependencies),
   nexts |-> NamesOf(t, t[self].nexts),
   description |-> t[self].description,
   completed |-> t[self].completed,
   children |-> [i \in 1..Len(t[self].children) |->
                   [k |-> t[self].children[i].k,
                    v |-> get_json(t, t[self].children[i].v)]]]

(* Task.load_from_json.                                                    *)
\* self.name, self.completed, self.description = task_json[...]
LoadFields(t, self, task_json) ==
  [t EXCEPT ![self].name = task_json.name,
            ![self].completed = task_json.completed,
            ![self].description = task_json.description]

RECURSIVE load_from_json(_, _, _), LoadDeps(_, _, _, _), LoadNexts(_, _, _, _),
          LoadCreate(_, _, _, _), LoadChildren(_, _, _, _)
\* for dep in task_json["dependencies"]:
\*     self.add_dependency(self.parent.children[dep])
LoadDeps(r, self, names, i) ==
  IF ~r.ok \/ i > Len(names) THEN r
  ELSE LET ch == r.t[r.t[self].parent].children
       IN IF names[i] \notin Keys(ch) THEN Raise(r.t)
          ELSE LoadDeps(add_dependency(r.t, self, Lookup(ch, names[i])),
                        self, names, i + 1)

\* for next in task_json["nexts"]: self.add_next(self.parent.children[next])
LoadNexts(r, self, names, i) ==
  IF ~r.ok \/ i > Len(names) THEN r
  ELSE LET ch == r.t[r.t[self].parent].children
       IN IF names[i] \notin Keys(ch) THEN Raise(r.t)
          ELSE LoadNexts(add_next(r.t, self, Lookup(ch, names[i])),
                         self, names, i + 1)

\* if self.parent is not None: the two loops above
LoadLinks(r, self, task_json) ==
  IF r.t[self].parent = None THEN r
  ELSE LoadNexts(LoadDeps(r, self, task_json.dependencies, 1),
                 self, task_json.nexts, 1)

\* for child_name in task_json["children"].keys(): self.create_child(child_name)
LoadCreate(r, self, kids, i) ==
  IF ~r.ok \/ i > Len(kids) THEN r
  ELSE LoadCreate(create_child(r.t, self, kids[i].k), self, kids, i + 1)

\* for child_name, sub_json in task_json["children"].items():
\*     self.children[child_name].load_from_json(sub_json)
LoadChildren(r, self, kids, i) ==
  IF ~r.ok \/ i > Len(kids) THEN r
  ELSE IF kids[i].k \notin Keys(r.t[self].children) THEN Raise(r.t)
  ELSE LoadChildren(load_from_json(r.t, Lookup(r.t[self].children, kids[i].k),
                                   kids[i].v),
                    self, kids, i + 1)

load_from_json(t, self, task_json) ==
  LoadChildren(
    LoadCreate(LoadLinks(Ok(LoadFields(t, self, task_json)), self, task_json),
               self, task_json.children, 1),
    self, task_json.children, 1)

------------------------------------------------------------------------------
(* Which objects exist: those the plan's root leads to through any field. *)
(* Object identities carry no meaning, so the arena is kept in the order   *)
(* in which a walk from the root first meets each object.                  *)
ValueSeq(ch) == [i \in 1..Len(ch) |-> ch[i].v]
RefSeq(t, i) ==
  ValueSeq(t[i].children) \o t[i].dependencies \o t[i].nexts \o <<t[i].parent>>

RECURSIVE Walk(_, _, _)
Walk(t, ord, todo) ==
  IF todo = <<>> THEN ord
  ELSE IF Head(todo) = None \/ Head(todo) \in Range(ord)
       THEN Walk(t, ord, Tail(todo))
       ELSE Walk(t, Append(ord, Head(todo)), RefSeq(t, Head(todo)) \o Tail(todo))

\* Where the walk `ord` puts object i: 0 for the root, None for an object
\* nothing refers to any more.
Place(ord, i) ==
  IF i \in Range(ord) THEN (CHOOSE k \in 1..Len(ord) : ord[k] = i) - 1 ELSE None

Rename(ord, x) ==
  [x EXCEPT !.parent = Place(ord, @),
            !.dependencies = [k \in 1..Len(@) |-> Place(ord, @[k])],
            !.nexts = [k \in 1..Len(@) |-> Place(ord, @[k])],
            !.children = [k \in 1..Len(@) |-> [k |-> @[k].k, v |-> Place(ord, @[k].v)]]]

Renumber(t, ord) ==
  [i \in Ids |-> IF i < Len(ord) THEN Rename(ord, t[ord[i + 1]]) ELSE FreeTask]

Collect(t) == IF t = tasks THEN t ELSE Renumber(t, Walk(t, <<>>, <<Root>>))

\* The tasks of the plan: the root and what its children mappings lead to.
RECURSIVE TreeFrom(_, _)
TreeFrom(t, S) ==
  LET S2 == S \cup UNION {Values(t[i].children) : i \in S}
  IN IF S2 = S THEN S ELSE TreeFrom(t, S2)

InPlan(t) == TreeFrom(t, {Root})

Live == {i \in Ids : tasks[i].live}

\* The tasks a caller reaches from the plan.
Handles == InPlan(tasks)

------------------------------------------------------------------------------
\* Plan.model_post_init: the root Task, named after the plan.
NewPlan == [i \in Ids |-> IF i = Root THEN Task(PlanName, None, <<>>, <<>>) ELSE FreeTask]

Init == tasks = NewPlan /\ ok = TRUE

\* A call's outcome: the arena it leaves, and whether it returned or raised.
Outcome(t, o) ==
  /\ tasks' = t
  /\ ok' = o

Call(r) == Outcome(Collect(r.t), r.ok)

\* A constructor call: the plan holds at most MaxTasks tasks besides the root
\* when it is over (a call that raises may leave none behind).
Built(t, o) ==
  /\ Cardinality({i \in Ids : t[i].live}) <= MaxTasks + 1
  /\ Outcome(t, o)

Create(r) == Built(Collect(r.t), r.ok)

EdgeCount ==
  Cardinality({e \in Ids \X (1..MaxEdges) : e[2] <= Len(tasks[e[1]].dependencies)})
CanLink == EdgeCount < MaxEdges

CreateChild ==
  \E s \in Handles, n \in Names : Create(create_child(tasks, s, n))

CreateDependency ==
  \E s \in Handles, n \in Names : Create(create_dependency(tasks, s, n))

CreateNext ==
  \E s \in Handles, n \in Names : Create(create_next(tasks, s, n))

AddDependency ==
  \E s \in Handles, o \in Handles :
    CanLink /\ Call(add_dependency(tasks, s, o))

AddNext ==
  \E s \in Handles, o \in Handles :
    CanLink /\ Call(add_next(tasks, s, o))

AddChild ==
  \E s \in Handles, o \in Handles :
    Call(add_child(tasks, s, o))

SetParent ==
  \E s \in Handles, o \in Handles :
    Call(set_parent(tasks, s, o))

\* The root is the plan's own; callers delete the tasks beneath it.
Delete ==
  \E s \in Handles \ {Root} :
    Call(delete(tasks, s))

\* Every relationship operation of Task, called on tasks of the plan.
Next ==
  \/ CreateChild
  \/ CreateDependency
  \/ CreateNext
  \/ AddDependency
  \/ AddNext
  \/ AddChild
  \/ SetParent
  \/ Delete

Spec == Init /\ [][Next]_vars

\* Creation, the dependency/next operations and delete.
NextLinks ==
  \/ CreateChild
  \/ CreateDependency
  \/ CreateNext
  \/ AddDependency
  \/ AddNext
  \/ Delete

SpecLinks == Init /\ [][NextLinks]_vars

\* How many fields a caller has set away from their defaults.
Marks ==
  Cardinality({i \in Ids : tasks[i].completed})
    + Cardinality({i \in Ids : tasks[i].shown_completed})
    + Cardinality({i \in Ids : tasks[i].description # ""})
CanMark(v) == v = FALSE \/ Marks < MaxMarks

\* An attribute assignment: it cannot raise.
Assign(t) == tasks' = t /\ ok' = TRUE

SetCompleted ==
  \E s \in Handles, v \in BOOLEAN :
    CanMark(v) /\ Assign(set_completed(tasks, s, v))

SetShownCompleted ==
  \E s \in Handles, v \in BOOLEAN :
    CanMark(v) /\ Assign(set_shown_completed(tasks, s, v))

SetDescription ==
  \E s \in Handles, d \in Descriptions :
    CanMark(d # "") /\ Assign(set_description(tasks, s, d))

\* Building a plan and marking its tasks done.
NextDoable ==
  \/ CreateChild
  \/ CreateDependency
  \/ CreateNext
  \/ SetCompleted
  \/ SetShownCompleted

SpecDoable == Init /\ [][NextDoable]_vars

\* Plan.save then Plan.load: the root merges the document just written.
SaveLoad ==
  Call(load_from_json(tasks, Root, get_json(tasks, Root)))

\* Plan.save, then a new Plan of the same name, whose constructor loads the
\* document into its fresh root; the caller goes on with the new plan when
\* the constructor returns, and with the old one when it raises.
Reloaded(t) == load_from_json(NewPlan, Root, get_json(t, Root))

OrKeep(r, t) == IF r.ok THEN r ELSE Raise(t)

Reload == Call(OrKeep(Reloaded(tasks), tasks))

\* Building a plan, describing and completing tasks, saving and loading.
NextJson ==
  \/ CreateChild
  \/ CreateDependency
  \/ CreateNext
  \/ AddDependency
  \/ AddNext
  \/ SetCompleted
  \/ SetDescription
  \/ SaveLoad
  \/ Reload

SpecJson == Init /\ [][NextJson]_vars

\* The documents a plan file may hold: a root entry with at most one child
\* entry, whose key and name are any names and which names at most one
\* dependency or next.
NameLists == {<<>>} \cup {<<n>> : n \in Names}

ChildDocuments ==
  {[name |-> n, dependencies |-> l[1], nexts |-> l[2],
    description |-> "", completed |-> FALSE, children |-> <<>>] :
     n \in Names,
     l \in {p \in NameLists \X NameLists : p[1] = <<>> \/ p[2] = <<>>}}

Documents ==
  [name : {PlanName}, dependencies : {<<>>}, nexts : {<<>>},
   description : Descriptions, completed : BOOLEAN,
   children : {<<>>} \cup {<<[k |-> k, v |-> v]>> : k \in Names, v \in ChildDocuments}]

MarksIn(t) ==
  Cardinality({i \in Ids : t[i].completed})
    + Cardinality({i \in Ids : t[i].shown_completed})
    + Cardinality({i \in Ids : t[i].description # ""})

Loaded(t, o) ==
  /\ Cardinality({i \in Ids : t[i].live}) <= MaxTasks + 1
  /\ MarksIn(t) <= MaxMarks
  /\ Outcome(t, o)

\* Plan.load with any document in the plan's file: self.root.load_from_json.
LoadDocument ==
  \E root \in {i \in Handles : tasks[i].parent = None}, doc \in Documents :
    Loaded(Collect(load_from_json(tasks, root, doc).t),
           load_from_json(tasks, root, doc).ok)

\* Building a plan and loading documents into it.
NextLoad ==
  \/ CreateChild
  \/ CreateDependency
  \/ CreateNext
  \/ LoadDocument

SpecLoad == Init /\ [][NextLoad]_vars

------------------------------------------------------------------------------
(* Properties.                                                              *)

Dependencies(t, a) == Range(t[a].dependencies)
Nexts(t, a) == Range(t[a].nexts)
Refs(t, a) == Range(RefSeq(t, a)) \ {None}

\* C1: for all tasks A and B still in the plan, B is in A.dependencies if and
\* only if A is in B.nexts.
C1_Symmetry ==
  \A A \in InPlan(tasks), B \in InPlan(tasks) :
    (B \in Dependencies(tasks, A)) <=> (A \in Nexts(tasks, B))

\* C2: for all tasks C and P, C is a value in P.children if and only if
\* C.parent is P.
C2_ParentChildMirrored ==
  \A C \in Live, P \in Live :
    (C \in Values(tasks[P].children)) <=> (tasks[C].parent = P)

\* C3: the root has level 0, every child's level is its parent's level plus
\* one, and every dependency/next pair has equal levels.
C3_Levels ==
  /\ tasks[Root].level = 0
  /\ \A A \in Live :
       /\ \A C \in Values(tasks[A].children) : tasks[C].level = tasks[A].level + 1
       /\ tasks[A].parent # None => tasks[A].level = tasks[tasks[A].parent].level + 1
       /\ \A B \in Dependencies(tasks, A) \cup Nexts(tasks, A) :
            tasks[B].level = tasks[A].level

C3_Witness ==
  /\ ok
  /\ \E A \in InPlan(tasks), B \in InPlan(tasks) :
       /\ A # B
       /\ B \in Dependencies(tasks, A)
       /\ A \in Values(tasks[Root].children)
       /\ tasks[A].level = 1

\* C4: creating a task whose name is already a key of the target parent's
\* children raises, and leaves the parent's children mapping as it was.
DuplicateRejected(r, p) == ~r.ok /\ r.t[p].children = tasks[p].children

C4_DuplicateRejected ==
  \A s \in Handles, n \in Names :
    /\ n \in Keys(tasks[s].children) =>
         DuplicateRejected(create_child(tasks, s, n), s)
    /\ (tasks[s].parent # None /\ n \in Keys(tasks[tasks[s].parent].children)) =>
         /\ DuplicateRejected(create_dependency(tasks, s, n), tasks[s].parent)
         /\ DuplicateRejected(create_next(tasks, s, n), tasks[s].parent)

\* C5: delete() on any task T beneath the root returns without raising;
\* afterwards T is not in its parent's children, and no task that remains in
\* the plan refers to T or to a descendant of T.
C5_DeleteCascades ==
  \A s \in Handles \ {Root} :
    LET r == delete(tasks, s)
        gone == TreeFrom(tasks, {s})
    IN /\ r.ok
       /\ tasks[s].parent # None => s \notin Values(r.t[tasks[s].parent].children)
       /\ \A x \in InPlan(r.t) \ gone : Refs(r.t, x) \cap gone = {}

\* C6: is_doable(T) is true if and only if T is the root or its parent is
\* doable, and every dependency of T is completed or shown_completed.
C6_DoableDefinition ==
  \A T \in InPlan(tasks) :
    is_doable(tasks, T) <=>
      /\ tasks[T].parent = None \/ is_doable(tasks, tasks[T].parent)
      /\ \A dep \in Dependencies(tasks, T) : Satisfied(tasks, dep)

\* C7: loading get_json(root) into a fresh root succeeds and gives a tree
\* with the same names, dependency and next edge sets, descriptions and
\* completed flags at every level.
RECURSIVE SameTree(_, _)
SameTree(d1, d2) ==
  /\ d1.name = d2.name
  /\ Range(d1.dependencies) = Range(d2.dependencies)
  /\ Range(d1.nexts) = Range(d2.nexts)
  /\ d1.description = d2.description
  /\ d1.completed = d2.completed
  /\ Keys(d1.children) = Keys(d2.children)
  /\ \A k \in Keys(d1.children) :
       SameTree(Lookup(d1.children, k), Lookup(d2.children, k))

C7_RoundTrip ==
  LET r == Reloaded(tasks)
  IN r.ok /\ SameTree(get_json(tasks, Root), get_json(r.t, Root))

\* C8: on a task T with a parent and a name n that is no sibling's yet,
\* T.create_next(n) returns a task N with T.parent.children[n] = N,
\* N.parent = T.parent, N.level = T.level, N.dependencies = [T] and N in
\* T.nexts; create_dependency(n) is the mirror image; and T.create_child(n),
\* for n no child's name yet, returns N with N.parent = T,
\* N.level = T.level + 1 and T.children[n] = N.
Registered(r, N, p, n) ==
  /\ r.ok
  /\ n \in Keys(r.t[p].children)
  /\ Lookup(r.t[p].children, n) = N
  /\ r.t[N].parent = p
  /\ r.t[N].name = n

C8_CreateWiresNewTask ==
  \A T \in Handles, n \in Names :
    LET N == NewId(tasks)
        p == tasks[T].parent
        rn == create_next(tasks, T, n)
        rd == create_dependency(tasks, T, n)
        rc == create_child(tasks, T, n)
    IN /\ (p # None /\ n \notin Keys(tasks[p].children)) =>
            /\ Registered(rn, N, p, n)
            /\ rn.t[N].level = rn.t[T].level
            /\ rn.t[N].dependencies = <<T>>
            /\ N \in Nexts(rn.t, T)
            /\ Registered(rd, N, p, n)
            /\ rd.t[N].level = rd.t[T].level
            /\ rd.t[N].nexts = <<T>>
            /\ N \in Dependencies(rd.t, T)
       /\ n \notin Keys(tasks[T].children) =>
            /\ Registered(rc, N, T, n)
            /\ rc.t[N].level = rc.t[T].level + 1

\* C9: for a task B whose ancestors are all doable and whose only
\* unsatisfied dependency is A, B.is_doable() is false, and is true as soon
\* as A.completed is set.
RECURSIVE Ancestors(_, _)
Ancestors(t, a) ==
  IF t[a].parent = None THEN {} ELSE {t[a].parent} \cup Ancestors(t, t[a].parent)

OnlyUnsatisfied(t, B, A) ==
  /\ A \in Dependencies(t, B)
  /\ ~Satisfied(t, A)
  /\ \A D \in Dependencies(t, B) \ {A} : Satisfied(t, D)
  /\ \A P \in Ancestors(t, B) : is_doable(t, P)

C9_DoableFollowsCompletion ==
  \A A \in Live, B \in Live :
    OnlyUnsatisfied(tasks, B, A) =>
      /\ ~is_doable(tasks, B)
      /\ is_doable(set_completed(tasks, A, TRUE), B)

C9_Witness ==
  \E A \in InPlan(tasks), B \in InPlan(tasks) :
    /\ A # B
    /\ OnlyUnsatisfied(set_completed(tasks, A, FALSE), B, A)
    /\ tasks[A].completed
    /\ ~tasks[A].shown_completed
    /\ is_doable(tasks, B)

\* C10: load_from_json merges: loading a document whose children already
\* exist returns without raising, and every task that was in the tree before
\* the load is in the tree after it.
C10_LoadMerges ==
  LET r == load_from_json(tasks, Root, get_json(tasks, Root))
  IN r.ok /\ InPlan(tasks) \subseteq InPlan(r.t)

\* C11: add_dependency(other) or add_next(other) with other.level #
\* self.level, add_child(other) with other.level # self.level + 1 and
\* set_parent(other) with other.level # self.level - 1 raise, and leave every
\* task as it was before the call.
Rejected(r) == ~r.ok /\ r.t = tasks

C11_LevelMismatchRejected ==
  \A s \in Handles, o \in Handles :
    /\ tasks[o].level # tasks[s].level =>
         Rejected(add_dependency(tasks, s, o)) /\ Rejected(add_next(tasks, s, o))
    /\ tasks[o].level # tasks[s].level + 1 => Rejected(add_child(tasks, s, o))
    /\ tasks[o].level # tasks[s].level - 1 => Rejected(set_parent(tasks, s, o))

\* C12: when load_from_json fails because a dependency or next name of the
\* document names no child of the node's parent, the tree is what it was
\* before the call: no field overwritten, no child created, no edge added.
Unresolved(t, doc) ==
  /\ Keys(doc.children) \cap Keys(t[Root].children) = {}
  /\ \E c \in Range(doc.children) :
       \E n \in Range(c.v.dependencies) \cup Range(c.v.nexts) :
         n \notin Keys(doc.children) \cup Keys(t[Root].children)

C12_FailedLoadChangesNothing ==
  \A doc \in Documents :
    Unresolved(tasks, doc) =>
      /\ ~load_from_json(tasks, Root, doc).ok
      /\ load_from_json(tasks, Root, doc).t = tasks

\* C13: add_dependency(B), add_next(B), add_child(B) and set_parent(B) return
\* without changing anything when the relation to B is already there, a call
\* repeated at once changes nothing more, and no dependencies or nexts list
\* holds a task twice.
Twice(r1, r2) == r2.t = r1.t

NoRepeat(lst) == Cardinality(Range(lst)) = Len(lst)

C13_Idempotent ==
  /\ \A s \in Live, B \in Live :
       /\ B \in Dependencies(tasks, s) => add_dependency(tasks, s, B) = Ok(tasks)
       /\ B \in Nexts(tasks, s) => add_next(tasks, s, B) = Ok(tasks)
       /\ B \in Values(tasks[s].children) => add_child(tasks, s, B) = Ok(tasks)
       /\ tasks[s].parent = B => set_parent(tasks, s, B) = Ok(tasks)
       /\ Twice(add_dependency(tasks, s, B),
                add_dependency(add_dependency(tasks, s, B).t, s, B))
       /\ Twice(add_next(tasks, s, B), add_next(add_next(tasks, s, B).t, s, B))
       /\ Twice(add_child(tasks, s, B), add_child(add_child(tasks, s, B).t, s, B))
       /\ Twice(set_parent(tasks, s, B), set_parent(set_parent(tasks, s, B).t, s, B))
  /\ \A A \in Live : NoRepeat(tasks[A].dependencies) /\ NoRepeat(tasks[A].nexts)

C13_Witness ==
  /\ ok
  /\ \E s \in InPlan(tasks), B \in InPlan(tasks) :
       /\ s # B
       /\ B \in Dependencies(tasks, s)
       /\ s \in Nexts(tasks, B)
       /\ tasks[s].parent = tasks[B].parent
       /\ s \in Values(tasks[tasks[s].parent].children)

\* C14: every task B in the dependencies or nexts of a task A of the plan has
\* A's parent, and B's name resolves in that parent's children to B itself.
Sibling(t, A, B) ==
  /\ t[B].parent = t[A].parent
  /\ t[A].parent # None
  /\ t[B].name \in Keys(t[t[A].parent].children)
  /\ Lookup(t[t[A].parent].children, t[B].name) = B

C14_LinksAmongSiblings ==
  \A A \in InPlan(tasks) :
    \A B \in Dependencies(tasks, A) \cup Nexts(tasks, A) : Sibling(tasks, A, B)

\* C15: every task that exists is reached from the plan's root through
\* children mappings, and so is every task in the dependencies or nexts of a
\* task of the tree.
C15_AllTasksInTree ==
  /\ Live \subseteq InPlan(tasks)
  /\ \A A \in InPlan(tasks) :
       Dependencies(tasks, A) \cup Nexts(tasks, A) \subseteq InPlan(tasks)

\* C16: a call of add_dependency, add_next, add_child or set_parent ends
\* after at most three nested calls, on any two tasks, a task with itself and
\* an edge of which only one direction is present included.
C16_MutualRecursionEnds ==
  \A s \in Live, o \in Live :
    /\ add_dependency_calls(tasks, s, o) <= 3
    /\ add_next_calls(tasks, s, o) <= 3
    /\ add_child_calls(tasks, s, o) <= 3
    /\ set_parent_calls(tasks, s, o) <= 3

C16_Witness ==
  \E A \in Live, B \in Live :
    /\ B \in Dependencies(tasks, A)
    /\ A \notin Nexts(tasks, B)
    /\ add_next_calls(tasks, B, A) = 2
    /\ add_next(tasks, B, A).ok
    /\ A \in Nexts(add_next(tasks, B, A).t, B)
    /\ add_dependency_calls(tasks, A, A) <= 3

\* C17: each key k of a task's children maps to a task whose name is k, also
\* after load_from_json of any document.
C17_ChildKeyIsName ==
  \A A \in Live :
    \A c \in Range(tasks[A].children) : tasks[c.v].name = c.k

\* C18: when tasks are added only by create_child, create_dependency and
\* create_next, no task reaches itself by following dependencies, and the
\* uncompleted children of a doable task, when there are any, include a
\* doable one.
RECURSIVE DependsOn(_, _)
DependsOn(t, S) ==
  LET S2 == S \cup UNION {Dependencies(t, i) : i \in S}
  IN IF S2 = S THEN S ELSE DependsOn(t, S2)

Acyclic(t) == \A A \in Live : A \notin DependsOn(t, Dependencies(t, A))

Uncompleted(t, P) == {c \in Values(t[P].children) : ~t[c].completed}

C18_AcyclicSoProgress ==
  /\ Acyclic(tasks)
  /\ \A P \in InPlan(tasks) :
       is_doable(tasks, P) /\ Uncompleted(tasks, P) # {} =>
         \E c \in Uncompleted(tasks, P) : is_doable(tasks, c)

====
